---------------------------- MODULE Spec2Model ----------------------------
(***************************************************************************)
(* A model of the two converters of this repository:                       *)
(*   cstug_to_dmlcz    (the "bulletin" dialect, with DOI lookups), and     *)
(*   crossref_to_dmlcz (the "crossref" dialect).                           *)
(* One run of main() is a state machine: the issue document is read, each  *)
(* article element is turned into a JournalArticle by its loaders, and     *)
(* JournalIssue.write_xml then writes one directory per article.           *)
(*                                                                         *)
(* Text is a sequence of tokens (characters, or a literal of the program   *)
(* kept as one token).  The result of an xpath query is a sequence of the  *)
(* matched nodes; Python's None is the empty option <<>>.                  *)
(***************************************************************************)
EXTENDS Integers, Sequences, FiniteSets, TLC

(***************************************************************************)
(* Bounds of the model.                                                    *)
(***************************************************************************)
MaxArticles == 2
MaxPage == 2
MaxPdfPages == 2
MaxOffset == 1
MaxCitations == 2
MaxContributors == 2
MaxTitleChildren == 3
MaxAdditional == 2
MaxMarkupChildren == 2

(***************************************************************************)
(* Generic helpers on sequences.                                           *)
(***************************************************************************)
SeqsUpTo(S, n) == UNION {[1..m -> S] : m \in 0..n}

Range(s) == {s[i] : i \in DOMAIN s}

(***************************************************************************)
(* Text: characters, Python's str.strip / str.split / ' '.join.            *)
(***************************************************************************)
SP == " "
NL == "\n"
Whitespace == {SP, NL}

RECURSIVE LStrip(_)
LStrip(t) == IF t # <<>> /\ Head(t) \in Whitespace THEN LStrip(Tail(t)) ELSE t

RECURSIVE RStrip(_)
RStrip(t) ==
    IF t # <<>> /\ t[Len(t)] \in Whitespace THEN RStrip(SubSeq(t, 1, Len(t) - 1)) ELSE t

\* str.strip()
Strip(t) == RStrip(LStrip(t))

\* sep.join(parts)
RECURSIVE Join(_, _)
Join(sep, parts) ==
    IF parts = <<>> THEN <<>>
    ELSE IF Len(parts) = 1 THEN parts[1]
    ELSE parts[1] \o sep \o Join(sep, Tail(parts))

\* str.split(): the maximal runs of non-whitespace characters, in order
RECURSIVE SplitWs(_, _)
SplitWs(t, word) ==
    IF t = <<>> THEN (IF word = <<>> THEN <<>> ELSE <<word>>)
    ELSE IF Head(t) \in Whitespace
         THEN (IF word = <<>> THEN <<>> ELSE <<word>>) \o SplitWs(Tail(t), <<>>)
         ELSE SplitWs(Tail(t), Append(word, Head(t)))

RECURSIVE StripAll(_)
StripAll(texts) ==
    IF texts = <<>> THEN <<>> ELSE <<Strip(Head(texts))>> \o StripAll(Tail(texts))

RECURSIVE NonEmpty(_)
NonEmpty(texts) ==
    IF texts = <<>> THEN <<>>
    ELSE (IF Head(texts) # <<>> THEN <<Head(texts)>> ELSE <<>>) \o NonEmpty(Tail(texts))

\* The tail of get_text: the text nodes ('.//text()') of an element, each
\* stripped, the empty ones dropped, joined by a space, split at whitespace
\* and joined by a space again.  An element is given by its text nodes in
\* document order.
get_text(element) ==
    Join(<<SP>>, SplitWs(Join(<<SP>>, NonEmpty(StripAll(element))), <<>>))


(***************************************************************************)
(* Errors.  A loader returns [err, val]; err = NoError when it returned.   *)
(***************************************************************************)
NoError == [type |-> "", msg |-> "", args |-> <<>>]
Error(type, msg, args) == [type |-> type, msg |-> msg, args |-> args]
Ok(val) == [err |-> NoError, val |-> val]
Raise(err, val) == [err |-> err, val |-> val]

\* "x, = xs" with len(xs) # 1
UnpackError == Error("ValueError", "values to unpack (expected 1)", <<>>)

(***************************************************************************)
(* Markup.  An element of the tree get_text works on:                      *)
(*   id        the identity of the element object                          *)
(*   tag       its name                                                    *)
(*   text      the text before its first child ("" and None alike <<>>)    *)
(*   children  its child elements, in order                                *)
(*   tail      the text between its end and the next sibling               *)
(***************************************************************************)
Markup(id, tag, text, children, tail) ==
    [id |-> id, tag |-> tag, text |-> text, children |-> children, tail |-> tail]

\* ELEMENT_REPLACEMENTS, in the order the dict is written and iterated (the
\* last three names are written here without the diacritics of their text)
ELEMENT_REPLACEMENTS ==
    << <<"CSTUG", <<"CSTUG">>>>, <<"CSplain", <<"CSplain">>>>, <<"Xe", <<"Xe">>>>,
       <<"La", <<"La">>>>, <<"TeX", <<"TeX">>>>, <<"LaTeX", <<"LaTeX">>>>,
       <<"XeTeX", <<"XeTeX">>>>, <<"XeLaTeX", <<"XeLaTeX">>>>, <<"encTeX", <<"encTeX">>>>,
       <<"pdfTeX", <<"pdfTeX">>>>, <<"pdfLaTeX", <<"pdfLaTeX">>>>,
       <<"LuaTeX", <<"LuaTeX">>>>, <<"LuaLaTeX", <<"LuaLaTeX">>>>,
       <<"ConTeXt", <<"ConTeXt">>>>, <<"Han", <<"Han">>>>, <<"The", <<"The">>>>,
       <<"Thanh", <<"Thanh">>>>, <<"br", <<NL>>>> >>

\* seqs[1] \o seqs[2] \o ...
RECURSIVE Flatten(_)
Flatten(seqs) == IF seqs = <<>> THEN <<>> ELSE Head(seqs) \o Flatten(Tail(seqs))

\* element.xpath('//name'): the elements of that name in the document of
\* `element`, in document order, by identity
RECURSIVE ElementsNamed(_, _)
ElementsNamed(element, element_name) ==
    (IF element.tag = element_name THEN <<element.id>> ELSE <<>>)
    \o Flatten([i \in DOMAIN element.children |->
                  ElementsNamed(element.children[i], element_name)])

\* The position of the child with that identity, 0 if there is none
ChildIndex(parent, id) ==
    IF \E i \in DOMAIN parent.children : parent.children[i].id = id
    THEN CHOOSE i \in DOMAIN parent.children : parent.children[i].id = id
    ELSE 0

\* parent.remove(subelement): the element leaves the tree with its tail
RemoveChild(children, i) == SubSeq(children, 1, i - 1) \o SubSeq(children, i + 1, Len(children))

\* The body of the loop of replace_elements_with_text for one subelement.
\* The root has no parent and stays.  A subelement an earlier turn removed
\* inside an element of the same name is changed outside the tree, which
\* the tree does not show.
RECURSIVE ReplaceElement(_, _, _)
ReplaceElement(element, id, replacement_text) ==
    LET i == ChildIndex(element, id) IN
    IF i = 0
    THEN [element EXCEPT !.children =
            [j \in DOMAIN element.children |->
               ReplaceElement(element.children[j], id, replacement_text)]]
    ELSE LET text == replacement_text \o element.children[i].tail
             removed == RemoveChild(element.children, i)
         IN  IF i > 1
             THEN [element EXCEPT !.children = [removed EXCEPT ![i - 1].tail = @ \o text]]
             ELSE [element EXCEPT !.text = @ \o text, !.children = removed]

RECURSIVE ReplaceElements(_, _, _)
ReplaceElements(element, ids, replacement_text) ==
    IF ids = <<>> THEN element
    ELSE ReplaceElements(ReplaceElement(element, Head(ids), replacement_text),
                         Tail(ids), replacement_text)

\* replace_elements_with_text(element, element_name, replacement_text)
replace_elements_with_text(element, element_name, replacement_text) ==
    ReplaceElements(element, ElementsNamed(element, element_name), replacement_text)

\* xpath(element, './/text()'): the text nodes below the element, in
\* document order; the element's own tail is not one of them
RECURSIVE TextNodes(_)
TextNodes(element) ==
    <<element.text>>
    \o Flatten([i \in DOMAIN element.children |->
                  TextNodes(element.children[i]) \o <<element.children[i].tail>>])

\* etree.fromstring(etree.tostring(element)): tostring writes the tail of
\* the element after it, and the parser accepts only whitespace after the
\* end of the root element.  The copy has no tail.
CopyOf(element) ==
    IF \E i \in DOMAIN element.tail : element.tail[i] \notin Whitespace
    THEN Raise(Error("XMLSyntaxError", "Extra content at the end of the document", <<>>),
               element)
    ELSE Ok([element EXCEPT !.tail = <<>>])

(***************************************************************************)
(* Language codes.                                                         *)
(***************************************************************************)
\* The rows of pycountry's table that the model's inputs can hit; a code
\* without a row ("xx") is looked up to None.
PycountryLanguages ==
    { [alpha_2 |-> "cs", alpha_3 |-> "ces", bibliographic |-> <<"cze">>],
      [alpha_2 |-> "sk", alpha_3 |-> "slk", bibliographic |-> <<"slo">>],
      [alpha_2 |-> "de", alpha_3 |-> "deu", bibliographic |-> <<"ger">>],
      [alpha_2 |-> "en", alpha_3 |-> "eng", bibliographic |-> <<>>] }

ClosedLanguages == {"cze", "slo", "eng"}

InvertPlaceholder == "TODO: cze nebo slo, ktery z nich to je?"

\* normalize_language of the crossref dialect
normalize_language_crossref(language_code) ==
    LET found == {l \in PycountryLanguages : l.alpha_2 = language_code} IN
    IF found = {}
    THEN Raise(Error("AttributeError", "'NoneType' object has no attribute 'alpha_3'", <<>>), "")
    ELSE LET language == CHOOSE l \in found : TRUE IN
         IF language.bibliographic # <<>>
         THEN Ok(language.bibliographic[1])
         ELSE Ok(language.alpha_3)

\* normalize_language of the bulletin dialect: the same, then the assertion
normalize_language_bulletin(language_code) ==
    LET r == normalize_language_crossref(language_code) IN
    IF r.err # NoError THEN r
    ELSE IF r.val \notin ClosedLanguages
         THEN Raise(Error("AssertionError", "normalized_language in ('cze', 'slo', 'eng')", <<>>), "")
         ELSE r

normalize_language(dialect, language_code) ==
    IF dialect = "bulletin"
    THEN normalize_language_bulletin(language_code)
    ELSE normalize_language_crossref(language_code)

invert_language(language_code) ==
    IF language_code \notin ClosedLanguages
    THEN Raise(Error("AssertionError", "language_code in ('cze', 'slo', 'eng')", <<>>), "")
    ELSE IF language_code \in {"cze", "slo"}
         THEN Ok("eng")
         ELSE Ok(InvertPlaceholder)

(***************************************************************************)
(* sorted() of a set of (language, text) pairs: Python compares the tuples *)
(* lexicographically and the strings by code point.                        *)
(***************************************************************************)
CodePoint(c) ==
    CASE c = NL -> 10
      [] c = SP -> 32
      [] c = "," -> 44
      [] c = ":" -> 58
      [] c = "a" -> 97
      [] c = "b" -> 98
      [] OTHER -> 0

RECURSIVE TextLess(_, _)
TextLess(s, t) ==
    IF t = <<>> THEN FALSE
    ELSE IF s = <<>> THEN TRUE
    ELSE IF CodePoint(Head(s)) # CodePoint(Head(t))
         THEN CodePoint(Head(s)) < CodePoint(Head(t))
         ELSE TextLess(Tail(s), Tail(t))

\* The language strings that occur, in code point order ('T' < 'c' < ...)
LanguageOrder == <<InvertPlaceholder, "cze", "eng", "ger", "slo">>
LanguageRank(l) == CHOOSE i \in DOMAIN LanguageOrder : LanguageOrder[i] = l

PairLess(p, q) ==
    \/ LanguageRank(p[1]) < LanguageRank(q[1])
    \/ p[1] = q[1] /\ TextLess(p[2], q[2])

RECURSIVE sorted(_)
sorted(S) ==
    IF S = {} THEN <<>>
    ELSE LET least == CHOOSE p \in S : \A q \in S \ {p} : PairLess(p, q)
         IN  <<least>> \o sorted(S \ {least})

(***************************************************************************)
(* An article element:                                                     *)
(*   language      the 'language' attribute                                *)
(*   titles        the children of <titles>, each [tag, language, text]    *)
(*                 (language = "" when the attribute is absent)            *)
(*   contributors  the <person_name> children of <contributors>, each      *)
(*                 [sequence, contributor_role, given_name, surname]       *)
(*   pages         [first_page, last_page]                                 *)
(*   doi           the article's DOI, as an option                         *)
(*   citations     the <citation> children of <citation_list>              *)
(*   additional    the children of <additional-content>, each              *)
(*                 [tag, text, keywords, para]                             *)
(***************************************************************************)
\* xpath(parent, tag) over a sequence of children: the indices, in order
RECURSIVE IndicesFrom(_, _, _)
IndicesFrom(children, tag, i) ==
    IF i > Len(children) THEN <<>>
    ELSE (IF children[i].tag = tag THEN <<i>> ELSE <<>>) \o IndicesFrom(children, tag, i + 1)

xpath(children, tag) == IndicesFrom(children, tag, 1)

\* The loop over the subtitles of _load_titles: the text of the first
\* subtitle whose previous sibling has the tag `after`, as an option.  A
\* subtitle that is the first child has no previous sibling.
RECURSIVE SubtitleLoop(_, _, _)
SubtitleLoop(children, subtitles, after) ==
    IF subtitles = <<>> THEN Ok(<<>>)
    ELSE LET i == Head(subtitles) IN
         IF i = 1
         THEN Raise(Error("AttributeError", "'NoneType' object has no attribute 'tag'", <<>>), <<>>)
         ELSE IF children[i - 1].tag # after
              THEN SubtitleLoop(children, Tail(subtitles), after)
              ELSE Ok(<<get_text(children[i].text)>>)

\* '{}: {}'.format(title_text, subtitle_text) when a subtitle was found
WithSubtitle(title_text, subtitle) ==
    IF subtitle = <<>> THEN title_text ELSE title_text \o <<":", SP>> \o subtitle[1]

\* TitleSet with self.titles a list that is appended to
TitleList(pairs) == pairs

\* self.titles when it is built: a set, so that add() drops a repeated pair
TitleSet(pairs) == sorted(Range(pairs))

\* JournalArticle._load_titles of the bulletin dialect; `language` is
\* self.language.  The value is the raised error or the sorted titles.
load_titles_bulletin(journal_article, language) ==
    LET children == journal_article.titles
        main == xpath(children, "title")
        originals == xpath(children, "original_language_title")
        subtitles == xpath(children, "subtitle")
        additional_titles == xpath(journal_article.additional, "title")
    IN
    IF Len(main) # 1 THEN Raise(UnpackError, <<>>)
    ELSE
    LET sub == SubtitleLoop(children, subtitles, "title")
        main_pair == <<language, WithSubtitle(get_text(children[main[1]].text), sub.val)>>
    IN
    IF sub.err # NoError THEN Raise(sub.err, <<>>)
    ELSE IF Len(originals) > 1 THEN Raise(UnpackError, <<>>)
    ELSE
    LET original_language ==
            IF originals = <<>> THEN Ok("")
            ELSE IF children[originals[1]].language = ""
                 THEN Raise(Error("KeyError", "language", <<>>), "")
                 ELSE normalize_language_bulletin(children[originals[1]].language)
        original_sub ==
            IF originals = <<>> THEN Ok(<<>>)
            ELSE SubtitleLoop(children, subtitles, "original_language_title")
        original_pairs ==
            IF originals = <<>> THEN <<>>
            ELSE << <<original_language.val,
                      WithSubtitle(get_text(children[originals[1]].text), original_sub.val)>> >>
    IN
    IF original_language.err # NoError THEN Raise(original_language.err, <<>>)
    ELSE IF original_sub.err # NoError THEN Raise(original_sub.err, <<>>)
    ELSE IF Len(additional_titles) > 1 THEN Raise(UnpackError, <<>>)
    ELSE
    LET inverted == IF additional_titles = <<>> THEN Ok("") ELSE invert_language(language)
        additional_pairs ==
            IF additional_titles = <<>> THEN <<>>
            ELSE << <<inverted.val,
                      get_text(journal_article.additional[additional_titles[1]].text)>> >>
    IN
    IF inverted.err # NoError THEN Raise(inverted.err, <<>>)
    ELSE Ok(TitleSet(<<main_pair>> \o original_pairs \o additional_pairs))

\* The loop of the crossref dialect's _load_titles over the chained titles
RECURSIVE CrossrefTitlePairs(_, _, _)
CrossrefTitlePairs(children, indices, language) ==
    IF indices = <<>> THEN Ok(<<>>)
    ELSE LET title == children[Head(indices)]
             title_language ==
                 IF title.language # "" THEN normalize_language_crossref(title.language)
                 ELSE Ok(language)
             rest == CrossrefTitlePairs(children, Tail(indices), language)
         IN  IF title_language.err # NoError THEN Raise(title_language.err, <<>>)
             ELSE IF rest.err # NoError THEN rest
             ELSE Ok(<< <<title_language.val, get_text(title.text)>> >> \o rest.val)

\* JournalArticle._load_titles of the crossref dialect
load_titles_crossref(journal_article, language) ==
    LET children == journal_article.titles
        pairs == CrossrefTitlePairs(
                     children,
                     xpath(children, "title") \o xpath(children, "original_language_title"),
                     language)
    IN  IF pairs.err # NoError THEN pairs ELSE Ok(TitleSet(pairs.val))

_load_titles(dialect, journal_article, language) ==
    IF dialect = "bulletin"
    THEN load_titles_bulletin(journal_article, language)
    ELSE load_titles_crossref(journal_article, language)

(***************************************************************************)
(* Authors.                                                                *)
(***************************************************************************)
\* xpath(element, 'contributors/person_name[@sequence = s and
\* @contributor_role = "author"]'): the matching persons, in document order
RECURSIVE PersonsWith(_, _, _)
PersonsWith(contributors, sequence, roles) ==
    IF contributors = <<>> THEN <<>>
    ELSE (IF /\ Head(contributors).sequence = sequence
             /\ Head(contributors).contributor_role \in roles
          THEN <<Head(contributors)>> ELSE <<>>)
         \o PersonsWith(Tail(contributors), sequence, roles)

AllRoles == {"author", "editor"}

\* The chain of the two queries of get_author_names (bulletin dialect)
AuthorElements(contributors) ==
    PersonsWith(contributors, "first", {"author"})
        \o PersonsWith(contributors, "additional", {"author"})

\* The loop of get_author_names: (first_name, last_name) per author, the
\* first name None (<<>>) when there is no given_name element
RECURSIVE AuthorNamesLoop(_)
AuthorNamesLoop(authors) ==
    IF authors = <<>> THEN Ok(<<>>)
    ELSE LET author == Head(authors)
             rest == AuthorNamesLoop(Tail(authors))
         IN  IF Len(author.given_name) > 1 \/ Len(author.surname) # 1
             THEN Raise(UnpackError, <<>>)
             ELSE IF rest.err # NoError THEN rest
             ELSE Ok(<< << IF author.given_name = <<>> THEN <<>>
                           ELSE <<get_text(author.given_name[1])>>,
                           get_text(author.surname[1]) >> >> \o rest.val)

get_author_names(element) == AuthorNamesLoop(AuthorElements(element.contributors))

\* The loop of the bulletin dialect's _load_authors over the author names:
\* `done` authors were appended before
RECURSIVE BulletinAuthorsLoop(_, _)
BulletinAuthorsLoop(names, done) ==
    IF names = <<>> THEN Ok(<<>>)
    ELSE LET first_name == Head(names)[1]
             last_name == Head(names)[2]
             author_order == done + 1
             rest == BulletinAuthorsLoop(Tail(names), done + 1)
         IN  IF first_name = <<>> \/ first_name[1] = <<>>
             THEN Raise(Error("AssertionError", "first_name", <<>>), <<>>)
             ELSE IF rest.err # NoError THEN rest
             ELSE Ok(<< <<author_order, last_name, first_name[1]>> >> \o rest.val)

load_authors_bulletin(journal_article) ==
    LET names == get_author_names(journal_article) IN
    IF names.err # NoError THEN names ELSE BulletinAuthorsLoop(names.val, 0)

\* The chain of the two queries of the crossref dialect's _load_authors
CrossrefAuthorElements(contributors) ==
    PersonsWith(contributors, "first", AllRoles)
        \o PersonsWith(contributors, "additional", AllRoles)

RECURSIVE CrossrefAuthorsLoop(_, _)
CrossrefAuthorsLoop(authors, done) ==
    IF authors = <<>> THEN Ok(<<>>)
    ELSE LET author == Head(authors)
             author_order == done + 1
             rest == CrossrefAuthorsLoop(Tail(authors), done + 1)
         IN  IF Len(author.given_name) # 1 \/ Len(author.surname) # 1
             THEN Raise(UnpackError, <<>>)
             ELSE IF rest.err # NoError THEN rest
             ELSE Ok(<< <<author_order, get_text(author.surname[1]),
                          get_text(author.given_name[1])>> >> \o rest.val)

load_authors_crossref(journal_article) ==
    CrossrefAuthorsLoop(CrossrefAuthorElements(journal_article.contributors), 0)

_load_authors(dialect, journal_article) ==
    IF dialect = "bulletin"
    THEN load_authors_bulletin(journal_article)
    ELSE load_authors_crossref(journal_article)

(***************************************************************************)
(* Pages, DOI, category.                                                   *)
(***************************************************************************)
_load_pages(journal_article) ==
    LET first_page == journal_article.pages.first_page
        last_page == journal_article.pages.last_page
    IN  IF first_page > last_page
        THEN Raise(Error("ValueError", "First page ({}) greater than last page ({})",
                         <<first_page, last_page>>), <<>>)
        ELSE Ok(<<first_page, last_page>>)

\* doi_base of the issue: '{}/{}-{}'.format(doi_base, year, issue)
IssueDoi == <<"doi-base", "/", "year", "-", "issue">>

\* self.doi: None (<<>>) or the text
_load_doi(dialect, journal_article) ==
    IF journal_article.doi = <<>> THEN <<>>
    ELSE IF dialect = "bulletin"
         THEN <<IssueDoi \o <<"/">> \o journal_article.doi[1]>>
         ELSE <<get_text(<<journal_article.doi[1]>>)>>

_load_category == "informatics"

(***************************************************************************)
(* Python values that come out of json.loads, and the None and str values  *)
(* a reference holds beside them: [t, s, keys, items] with t the type, s   *)
(* the text of a scalar, and keys/items the entries of a dict (items only: *)
(* a list).                                                                *)
(***************************************************************************)
PyStr(text) == [t |-> "str", s |-> text, keys |-> <<>>, items |-> <<>>]
PyNum(text) == [t |-> "num", s |-> text, keys |-> <<>>, items |-> <<>>]
PyBool(text) == [t |-> "bool", s |-> text, keys |-> <<>>, items |-> <<>>]
PyNone == [t |-> "null", s |-> <<>>, keys |-> <<>>, items |-> <<>>]
PyDict(keys, items) == [t |-> "dict", s |-> <<>>, keys |-> keys, items |-> items]
PyList(items) == [t |-> "list", s |-> <<>>, keys |-> <<>>, items |-> items]

\* str(element) of a scalar
str(element) ==
    CASE element.t = "null" -> <<"None">>
      [] element.t = "bool" -> IF element.s = <<"true">> THEN <<"True">> ELSE <<"False">>
      [] OTHER -> element.s

\* bool(element)
Truthy(element) ==
    CASE element.t \in {"dict", "list"} -> element.items # <<>>
      [] element.t = "str" -> element.s # <<>>
      [] element.t = "num" -> element.s # <<"0">>
      [] element.t = "bool" -> element.s = <<"true">>
      [] OTHER -> FALSE

\* A path fragment of find_optional_in_json: a key (str) or an index (int)
Key(k) == [kind |-> "str", key |-> k, idx |-> 0]
Idx(i) == [kind |-> "int", key |-> "", idx |-> i]

HasKey(element, k) == \E i \in DOMAIN element.keys : element.keys[i] = k
ItemAt(element, k) == element.items[CHOOSE i \in DOMAIN element.keys : element.keys[i] = k]

TypeError(msg) == Error("TypeError", msg, <<>>)

\* key in element, for a str key
In(k, element) ==
    CASE element.t = "dict" -> Ok(HasKey(element, k))
      [] element.t = "list" -> Ok(\E i \in DOMAIN element.items : element.items[i] = PyStr(<<k>>))
      [] element.t = "str" -> Ok(k \in Range(element.s))
      [] OTHER -> Raise(TypeError("argument is not iterable"), FALSE)

\* element[fragment]
Subscript(element, fragment) ==
    CASE element.t = "dict" ->
            IF fragment.kind = "str" /\ HasKey(element, fragment.key)
            THEN Ok(ItemAt(element, fragment.key))
            ELSE Raise(Error("KeyError", "key", <<>>), PyNone)
      [] element.t = "list" ->
            IF fragment.kind # "int"
            THEN Raise(TypeError("list indices must be integers"), PyNone)
            ELSE IF fragment.idx + 1 \in DOMAIN element.items
                 THEN Ok(element.items[fragment.idx + 1])
                 ELSE Raise(Error("IndexError", "list index out of range", <<>>), PyNone)
      [] element.t = "str" ->
            IF fragment.kind # "int"
            THEN Raise(TypeError("string indices must be integers"), PyNone)
            ELSE IF fragment.idx + 1 \in DOMAIN element.s
                 THEN Ok(PyStr(<<element.s[fragment.idx + 1]>>))
                 ELSE Raise(Error("IndexError", "string index out of range", <<>>), PyNone)
      [] OTHER -> Raise(TypeError("object is not subscriptable"), PyNone)

\* The walk of find_optional_in_json: the element the loop ends at
RECURSIVE Walk(_, _)
Walk(element, input_address) ==
    IF input_address = <<>> THEN Ok(element)
    ELSE LET fragment == Head(input_address) IN
         IF element.t \notin {"dict", "list"} THEN Ok(element)
         ELSE IF element.t = "dict" /\ ~(fragment.kind = "str" /\ HasKey(element, fragment.key))
              THEN Ok(element)
         ELSE IF element.t = "list" /\ fragment.kind = "str"
              THEN Raise(TypeError("'>=' not supported between instances of 'str' and 'int'"),
                         PyNone)
         ELSE IF element.t = "list" /\ fragment.idx >= Len(element.items)
              THEN Ok(element)
         ELSE LET next == Subscript(element, fragment) IN
              IF next.err # NoError THEN next ELSE Walk(next.val, Tail(input_address))

\* dict[key] = value, a dict being a set of (key, value) pairs
SetItem(dict, key, value) == {p \in dict : p[1] # key} \cup {<<key, value>>}

\* find_optional_in_json(input_address, output_element_name) on `optionals`
find_optional_in_json(resolved_doi, optionals, input_address, output_element_name) ==
    LET element == Walk(resolved_doi, input_address) IN
    IF element.err # NoError THEN Raise(element.err, optionals)
    ELSE IF element.val.t \in {"dict", "list"} THEN Ok(optionals)
    ELSE Ok(SetItem(optionals, output_element_name, str(element.val)))

\* The six calls of find_optional_in_json, in the order of the source
JsonOptionals ==
    << <<<<Key("publisher")>>, "publisher">>,
       <<<<Key("published-print"), Key("date-parts"), Idx(0), Idx(0)>>, "year">>,
       <<<<Key("issue")>>, "number">>,
       <<<<Key("volume")>>, "volume">>,
       <<<<Key("page")>>, "pages">>,
       <<<<Key("ISSN"), Idx(0)>>, "ISSN">> >>

RECURSIVE FindAllInJson(_, _, _)
FindAllInJson(resolved_doi, optionals, calls) ==
    IF calls = <<>> THEN Ok(optionals)
    ELSE LET r == find_optional_in_json(resolved_doi, optionals, Head(calls)[1], Head(calls)[2])
         IN  IF r.err # NoError THEN r
             ELSE FindAllInJson(resolved_doi, r.val, Tail(calls))

\* resolve_doi without the test of the status
resolve_doi_any_status(response) == response.json

\* resolve_doi: the response of the lookup service to the parsed metadata
resolve_doi(response) ==
    IF response.status_code = 200 THEN response.json ELSE PyDict(<<>>, <<>>)

(***************************************************************************)
(* References.  A citation element:                                        *)
(*   doi, article_title, unstructured_citation, author                     *)
(*                  the children of that name, in order (each a text)      *)
(*   contributors   the <person_name> children of <contributors>           *)
(*   fields         the other descendants, each [tag, text]                *)
(***************************************************************************)
Placeholder == <<"TODO: Doplnit!">>
PlaceholderSuffix == <<". TODO: Doplnit!">>

\* '[{}]'.format(refid)
Prefix(refid) == <<"[", refid, "]">>

\* The first author of the resolved metadata, as the list author_names
ResolvedAuthor(resolved_doi) ==
    LET has == In("author", resolved_doi) IN
    IF has.err # NoError THEN Raise(has.err, <<>>)
    ELSE IF ~has.val THEN Ok(<<>>)
    ELSE
    LET authors == Subscript(resolved_doi, Key("author")) IN
    IF authors.err # NoError THEN Raise(authors.err, <<>>)
    ELSE IF ~Truthy(authors.val) THEN Ok(<<>>)
    ELSE
    LET first == Subscript(authors.val, Idx(0)) IN
    IF first.err # NoError THEN Raise(first.err, <<>>)
    ELSE
    LET first_name == Subscript(first.val, Key("given"))
        last_name == Subscript(first.val, Key("family"))
    IN
    IF first_name.err # NoError THEN Raise(first_name.err, <<>>)
    ELSE IF last_name.err # NoError THEN Raise(last_name.err, <<>>)
    ELSE Ok(<< <<first_name.val, last_name.val>> >>)

\* The title after "if 'title' in resolved_doi"
ResolvedTitle(resolved_doi) ==
    LET has == In("title", resolved_doi) IN
    IF has.err # NoError THEN Raise(has.err, PyNone)
    ELSE IF ~has.val THEN Ok(PyStr(Placeholder))
    ELSE Subscript(resolved_doi, Key("title"))

\* The DOI branch of the bulletin dialect, after the lookup returned
DoiReference(refid, reference, response) ==
    LET doi == get_text(<<reference.doi[1]>>)
        resolved_doi == resolve_doi(response)
        title == ResolvedTitle(resolved_doi)
        author_names == ResolvedAuthor(resolved_doi)
        optionals == FindAllInJson(resolved_doi,
                                   {<<"URL", <<"https://dx.doi.org/">> \o doi>>},
                                   JsonOptionals)
        record == [refid |-> refid, prefix |-> Prefix(refid), title |-> title.val,
                   author_names |-> author_names.val, suffix |-> PlaceholderSuffix,
                   optionals |-> optionals.val]
    IN  IF title.err # NoError THEN Raise(title.err, <<>>)
        ELSE IF author_names.err # NoError THEN Raise(author_names.err, <<>>)
        ELSE IF optionals.err # NoError THEN Raise(optionals.err, <<>>)
        ELSE Ok(record)

\* The names of get_author_names as the pairs author_names holds
RECURSIVE NamePairs(_)
NamePairs(names) ==
    IF names = <<>> THEN <<>>
    ELSE << << IF Head(names)[1] = <<>> THEN PyNone ELSE PyStr(Head(names)[1][1]),
               PyStr(Head(names)[2]) >> >> \o NamePairs(Tail(names))

\* The nine calls of find_optional_in_xml, in the order of the source
XmlOptionals ==
    << <<"jpurnal_title", "booktitle">>, <<"volume", "volume">>, <<"issue", "number">>,
       <<"cYear", "year">>, <<"series_title", "series">>, <<"edition_number", "edition">>,
       <<"isbn", "ISBN">>, <<"issn", "ISSN">>, <<"url", "URL">> >>

RECURSIVE FindAllInXml(_, _, _)
FindAllInXml(reference, optionals, calls) ==
    IF calls = <<>> THEN optionals
    ELSE LET elements == xpath(reference.fields, Head(calls)[1])
             found == IF elements = <<>> THEN optionals
                      ELSE SetItem(optionals, Head(calls)[2],
                                   get_text(<<reference.fields[elements[1]].text>>))
         IN  FindAllInXml(reference, found, Tail(calls))

\* The article_title branch of the bulletin dialect
StructuredReference(refid, reference) ==
    LET names == get_author_names(reference)
        record == [refid |-> refid, prefix |-> Prefix(refid),
                   title |-> PyStr(get_text(<<reference.article_title[1]>>)),
                   author_names |-> NamePairs(names.val), suffix |-> PlaceholderSuffix,
                   optionals |-> FindAllInXml(reference, {}, XmlOptionals)]
    IN  IF Len(reference.article_title) # 1 THEN Raise(UnpackError, <<>>)
        ELSE IF names.err # NoError THEN Raise(names.err, <<>>)
        ELSE Ok(record)

\* The unstructured_citation branch of the bulletin dialect
UnstructuredReference(refid, reference) ==
    LET record == [refid |-> refid, prefix |-> Prefix(refid), title |-> PyStr(Placeholder),
                   author_names |-> <<>>,
                   suffix |-> get_text(<<reference.unstructured_citation[1]>>),
                   optionals |-> {}]
    IN  IF Len(reference.unstructured_citation) # 1 THEN Raise(UnpackError, <<>>)
        ELSE Ok(record)

MalformedReference(refid) ==
    Error("ValueError",
          "Reference {} contains neither DOI, article title, nor unstructured citation",
          <<refid>>)

\* Whether the body of the loop issues a lookup for this citation
IssuesLookup(dialect, reference) == dialect = "bulletin" /\ Len(reference.doi) = 1

\* load_reference_bulletin with the unstructured text tested first
load_reference_free_text_first(refid, reference, response) ==
    IF reference.unstructured_citation # <<>> THEN UnstructuredReference(refid, reference)
    ELSE IF reference.doi # <<>>
    THEN IF Len(reference.doi) # 1 THEN Raise(UnpackError, <<>>)
         ELSE DoiReference(refid, reference, response)
    ELSE IF reference.article_title # <<>> THEN StructuredReference(refid, reference)
    ELSE Raise(MalformedReference(refid), <<>>)

\* One turn of the loop of the bulletin dialect's _load_references
load_reference_bulletin(refid, reference, response) ==
    IF reference.doi # <<>>
    THEN IF Len(reference.doi) # 1 THEN Raise(UnpackError, <<>>)
         ELSE DoiReference(refid, reference, response)
    ELSE IF reference.article_title # <<>> THEN StructuredReference(refid, reference)
    ELSE IF reference.unstructured_citation # <<>> THEN UnstructuredReference(refid, reference)
    ELSE Raise(MalformedReference(refid), <<>>)

\* One turn of the loop of the crossref dialect's _load_references
load_reference_crossref(refid, reference) ==
    IF reference.doi # <<>>
    THEN IF Len(reference.doi) # 1 THEN Raise(UnpackError, <<>>)
         ELSE Ok([refid |-> refid, prefix |-> Prefix(refid), title |-> PyNone,
                  author |-> PyNone,
                  suffix |-> <<". DOI: ">> \o get_text(<<reference.doi[1]>>)])
    ELSE IF Len(reference.article_title) # 1 \/ Len(reference.author) # 1
         THEN Raise(UnpackError, <<>>)
         ELSE LET title == get_text(<<reference.article_title[1]>>)
                  author == get_text(<<reference.author[1]>>)
              IN  Ok([refid |-> refid, prefix |-> Prefix(refid), title |-> PyStr(title),
                      author |-> PyStr(author),
                      suffix |-> <<". ">> \o author \o <<". ">> \o title])

\* load_reference without "refid += 1"
load_reference_unshifted(dialect, refid, reference, response) ==
    IF dialect = "bulletin"
    THEN load_reference_bulletin(refid - 1, reference, response)
    ELSE load_reference_crossref(refid - 1, reference)

load_reference(dialect, refid, reference, response) ==
    IF dialect = "bulletin"
    THEN load_reference_bulletin(refid, reference, response)
    ELSE load_reference_crossref(refid, reference)

(***************************************************************************)
(* Summaries and keywords (bulletin dialect).                              *)
(***************************************************************************)
RECURSIVE GetTexts(_)
GetTexts(elements) ==
    IF elements = <<>> THEN <<>>
    ELSE <<get_text(<<Head(elements)>>)>> \o GetTexts(Tail(elements))

\* The language of an abstract: abstract.getprevious() is None exactly when
\* the abstract is the first child of <additional-content>
AbstractLanguage(position, language) ==
    IF position = 1 THEN Ok(language) ELSE invert_language(language)

\* The loop of _load_summaries over the abstracts (their positions among
\* the children): the pairs added and main_summary_language
RECURSIVE SummariesLoop(_, _, _, _)
SummariesLoop(children, abstracts, language, main) ==
    IF abstracts = <<>> THEN Ok([pairs |-> <<>>, main_summary_language |-> main])
    ELSE LET position == Head(abstracts)
             paragraphs == children[position].para
             summary_language == AbstractLanguage(position, language)
             summary_text == Join(<<NL, NL>>, GetTexts(paragraphs))
         IN  IF paragraphs = <<>>
             THEN SummariesLoop(children, Tail(abstracts), language, main)
             ELSE IF summary_language.err # NoError THEN Raise(summary_language.err, <<>>)
             ELSE LET rest == SummariesLoop(children, Tail(abstracts), language,
                                            IF position = 1 THEN <<language>> ELSE main)
                  IN  IF rest.err # NoError THEN rest
                      ELSE Ok([pairs |-> << <<summary_language.val, summary_text>> >>
                                            \o rest.val.pairs,
                               main_summary_language |-> rest.val.main_summary_language])

\* self.summaries when it is built: a set, so that add() drops a repeated pair
SummarySet(pairs) == sorted(Range(pairs))

\* JournalArticle._load_summaries: [summaries, main_summary_language]
_load_summaries(journal_article, language) ==
    LET children == journal_article.additional
        loop == SummariesLoop(children, xpath(children, "abstract"), language, <<>>)
    IN  IF loop.err # NoError THEN loop
        ELSE Ok([summaries |-> SummarySet(loop.val.pairs),
                 main_summary_language |-> loop.val.main_summary_language])

\* re.split(', *', text): `part` is the part being read
RECURSIVE SkipSpaces(_)
SkipSpaces(t) == IF t # <<>> /\ Head(t) = SP THEN SkipSpaces(Tail(t)) ELSE t

RECURSIVE SplitCommas(_, _)
SplitCommas(t, part) ==
    IF t = <<>> THEN <<part>>
    ELSE IF Head(t) = ","
         THEN <<part>> \o SplitCommas(SkipSpaces(Tail(t)), <<>>)
         ELSE SplitCommas(Tail(t), Append(part, Head(t)))

RECURSIVE WithLanguage(_, _)
WithLanguage(language, texts) ==
    IF texts = <<>> THEN <<>>
    ELSE << <<language, Head(texts)>> >> \o WithLanguage(language, Tail(texts))

RECURSIVE KeywordsLoop(_, _, _)
KeywordsLoop(children, abstracts, language) ==
    IF abstracts = <<>> THEN Ok(<<>>)
    ELSE LET position == Head(abstracts)
             keywords == children[position].keywords
             keyword_language == AbstractLanguage(position, language)
             rest == KeywordsLoop(children, Tail(abstracts), language)
         IN  IF keywords = <<>> THEN rest
             ELSE IF Len(keywords) # 1 THEN Raise(UnpackError, <<>>)
             ELSE IF keyword_language.err # NoError THEN Raise(keyword_language.err, <<>>)
             ELSE IF rest.err # NoError THEN rest
             ELSE Ok(WithLanguage(keyword_language.val,
                                  SplitCommas(get_text(<<keywords[1]>>), <<>>))
                     \o rest.val)

\* JournalArticle._load_keywords
_load_keywords(journal_article, language) ==
    KeywordsLoop(journal_article.additional,
                 xpath(journal_article.additional, "abstract"), language)

(***************************************************************************)
(* The documents explored.  The articles of an issue are drawn from        *)
(* RunElements; the one article of a one-article issue is also explored    *)
(* over ArticleElements, where one part of the element varies widely and   *)
(* the others are the plain ones.                                          *)
(***************************************************************************)
A == <<"a">>
B == <<"b">>

Person(sequence, role, given_name, surname) ==
    [sequence |-> sequence, contributor_role |-> role,
     given_name |-> given_name, surname |-> surname]

TitleChild(tag, language, text) == [tag |-> tag, language |-> language, text |-> text]

AdditionalChild(tag, text, keywords, para) ==
    [tag |-> tag, text |-> text, keywords |-> keywords, para |-> para]

Citation(doi, article_title, unstructured_citation, author, contributors, fields) ==
    [doi |-> doi, article_title |-> article_title,
     unstructured_citation |-> unstructured_citation, author |-> author,
     contributors |-> contributors, fields |-> fields]

PlainTitles == <<TitleChild("title", "", <<A>>)>>
PlainContributors == <<Person("first", "author", <<<<A>>>>, <<<<B>>>>)>>
PlainPages == [first_page |-> 1, last_page |-> 1]

Element(language, titles, contributors, pages, doi, citations, additional) ==
    [language |-> language, titles |-> titles, contributors |-> contributors,
     pages |-> pages, doi |-> doi, citations |-> citations, additional |-> additional]

PageRanges == [first_page : 1..MaxPage, last_page : 1..MaxPage]

DoiCitation == Citation(<<A>>, <<>>, <<>>, <<>>, <<>>, <<>>)
EmptyCitation == Citation(<<>>, <<>>, <<>>, <<>>, <<>>, <<>>)

RunElements ==
    { Element(language, PlainTitles, PlainContributors, pages, <<>>, citations, <<>>) :
        language \in {"cs", "xx"}, pages \in PageRanges,
        citations \in {<<>>, <<DoiCitation>>, <<EmptyCitation>>} }

TitleChildren ==
    { TitleChild("title", "", <<A>>),
      TitleChild("title", "en", <<A>>), TitleChild("subtitle", "", <<B>>),
      TitleChild("original_language_title", "cs", <<A>>),
      TitleChild("original_language_title", "cs", <<<<SP, "a", NL>>>>),
      TitleChild("original_language_title", "en", <<A>>) }

AdditionalChildren ==
    { AdditionalChild("title", <<A>>, <<>>, <<>>),
      AdditionalChild("abstract", <<>>, <<>>, <<A>>),
      AdditionalChild("abstract", <<>>, <<<<"a", ",", SP, "b">>>>, <<<<SP, "a">>, B>>),
      AdditionalChild("abstract", <<>>, <<B>>, <<>>) }

Persons ==
    { Person(sequence, role, given_name, <<<<surname>>>>) :
        sequence \in {"first", "additional"}, role \in AllRoles,
        given_name \in {<<>>, <<<<A>>>>}, surname \in {B} }

Citations ==
    { Citation(doi, article_title, unstructured_citation, author, contributors, <<>>) :
        doi \in {<<>>, <<A>>}, article_title \in {<<>>, <<B>>},
        unstructured_citation \in {<<>>, <<<<"a", SP, SP, "b">>>>},
        author \in {<<>>},
        contributors \in {<<>>} }
    \cup { Citation(doi, <<B>>, <<>>, <<A>>,
                    <<Person("first", "author", <<>>, <<<<A>>>>)>>,
                    <<[tag |-> "volume", text |-> A]>>) : doi \in {<<>>, <<A>>} }

ArticleElements ==
    RunElements
    \cup { Element(language, PlainTitles, PlainContributors, PlainPages, doi, <<>>, <<>>) :
             language \in {"cs", "sk", "en", "de", "xx"}, doi \in {<<>>, <<A>>} }
    \cup { Element(language, titles, PlainContributors, PlainPages, <<>>, <<>>, additional) :
             language \in {"cs", "en"}, titles \in SeqsUpTo(TitleChildren, MaxTitleChildren),
             additional \in {<<>>, <<AdditionalChild("title", <<A>>, <<>>, <<>>)>>} }
    \cup { Element(language, PlainTitles, PlainContributors, PlainPages, <<>>, <<>>, additional) :
             language \in {"cs", "en"},
             additional \in SeqsUpTo(AdditionalChildren, MaxAdditional) }
    \cup { Element("cs", PlainTitles, contributors, PlainPages, <<>>, <<>>, <<>>) :
             contributors \in SeqsUpTo(Persons, MaxContributors) }
    \cup { Element("cs", PlainTitles, PlainContributors, PlainPages, <<>>, citations, <<>>) :
             citations \in SeqsUpTo(Citations, MaxCitations) }

\* What the lookup service can answer
MetadataJson ==
    PyDict(<<"title", "author", "publisher", "published-print", "issue", "ISSN">>,
           << PyStr(A),
              PyList(<<PyDict(<<"given", "family">>, <<PyStr(A), PyStr(B)>>)>>),
              PyStr(B),
              PyDict(<<"date-parts">>, <<PyList(<<PyList(<<PyNum(<<"2019">>)>>)>>)>>),
              PyNum(<<"1">>),
              PyList(<<PyStr(A)>>) >>)

JsonDocuments ==
    { MetadataJson,
      PyDict(<<>>, <<>>),
      PyDict(<<"author", "ISSN">>, <<PyList(<<>>), PyStr(A)>>),
      PyDict(<<"author">>, <<PyList(<<PyDict(<<"family">>, <<PyStr(B)>>)>>)>>),
      PyDict(<<"published-print">>, <<PyList(<<PyNum(<<"1">>)>>)>>),
      PyList(<<>>) }

Responses ==
    [status_code : {200}, json : JsonDocuments]
    \cup [status_code : {404, 500}, json : {PyDict(<<"title">>, <<PyStr(B)>>)}]

NoResponse == [status_code |-> 0, json |-> PyNone]

\* The elements get_text is applied to: a parent with up to MaxMarkupChildren
\* children, which are elements of the substitution table or others, one
\* with a replaced child and one replaced element inside another
MarkupChildren ==
    { Markup(0, tag, <<>>, <<>>, tail) :
        tag \in {"La", "TeX", "br", "i"}, tail \in {<<>>, <<"x">>, <<SP, "y">>} }
    \cup { Markup(0, tag, <<"y">>, <<Markup(0, "TeX", <<>>, <<>>, <<"z">>)>>, <<"x">>) :
             tag \in {"i", "TeX"} }

\* The element with an identity for itself and for each of its descendants
RECURSIVE Identified(_, _)
Identified(element, id) ==
    [element EXCEPT !.id = id,
                    !.children = [j \in DOMAIN @ |-> Identified(@[j], 10 * id + j)]]

Markups ==
    { Identified(Markup(0, "title", text, children, tail), 1) :
        text \in {<<>>, <<"w", SP>>},
        children \in SeqsUpTo(MarkupChildren, MaxMarkupChildren),
        tail \in {<<>>, <<NL>>, <<"t">>} }

(***************************************************************************)
(* The state of a run of main().                                           *)
(***************************************************************************)
VARIABLES
    dialect,            \* "bulletin" (cstug_to_dmlcz) or "crossref" (crossref_to_dmlcz)
    page_offset,        \* --page-offset
    first_page_option,  \* --first-page-number (crossref dialect)
    n_articles,         \* the number of article elements of the input document
    pc,                 \* where the run is
    k,                  \* the 1-based number of the article being built or written
    journal_article,    \* the element JournalArticle.__init__ is working on
    art,                \* the JournalArticle being built
    refid,              \* the enumerate() index of _load_references (0-based)
    responses,          \* per citation of this article: the status of its lookup, 0 if none
    lookup_count,       \* the lookups issued in this run
    resolved_doi,       \* what resolve_doi returned last (a local of _load_references)
    articles,           \* JournalIssue.articles
    pdf_pages,          \* the number of pages of the input PDF, once read
    output_dir,         \* whether the output directory exists
    fs,                 \* per article directory: whether it exists and its files
    page_number,        \* the loop variable of write_pdf (logical page)
    requested,          \* the indices write_pdf passed to getPage for this article
    output_pdf,         \* the pages added to the PdfFileWriter of this article
    error,              \* the exception that ended the run
    failed_in,          \* the value of pc when it was raised
    markup,             \* the element a caller passed to get_text
    copy,               \* the local `element` of get_text: its own tree
    replacement,        \* the entry of ELEMENT_REPLACEMENTS the loop of get_text is at
    normalized          \* what get_text returned, as an option

vars == <<dialect, page_offset, first_page_option, n_articles, pc, k, journal_article,
          art, refid, responses, lookup_count, resolved_doi, articles, pdf_pages, output_dir, fs,
          page_number, requested, output_pdf, error, failed_in,
          markup, copy, replacement, normalized>>

NoElement == Element("", <<>>, <<>>, PlainPages, <<>>, <<>>, <<>>)

NoArticle ==
    [language |-> "", titles |-> <<>>, authors |-> <<>>, pages |-> <<>>, doi |-> <<>>,
     category |-> "", references |-> <<>>, summaries |-> <<>>,
     main_summary_language |-> <<>>, keywords |-> <<>>]

\* ArticleDirectory with the number of the first article in every label
ArticleDirectoryFixed(article_number) == <<"#", 1>>

\* ArticleDirectory counting the articles from the last one
ArticleDirectoryReversed(article_number) == <<"#", MaxArticles + 1 - article_number>>

\* '#{}'.format(article_number)
ArticleDirectory(article_number) == <<"#", article_number>>

Directories == {<<"#", i>> : i \in 1..MaxArticles}

NoFiles == [exists |-> FALSE, meta |-> <<>>, references |-> <<>>, pdf |-> <<>>]

NoMarkup == Markup(0, "", <<>>, <<>>, <<>>)

Init ==
    /\ dialect \in {"bulletin", "crossref"}
    /\ page_offset \in 0..MaxOffset
    /\ first_page_option \in IF dialect = "crossref" THEN 1..MaxPage ELSE {0}
    /\ n_articles \in 0..MaxArticles
    /\ pc = "read_xml"
    /\ k = 0
    /\ journal_article = NoElement
    /\ art = NoArticle
    /\ refid = 0
    /\ responses = <<>>
    /\ lookup_count = 0
    /\ resolved_doi = PyNone
    /\ articles = <<>>
    /\ pdf_pages = 0
    /\ output_dir = FALSE
    /\ fs = [d \in Directories |-> NoFiles]
    /\ page_number = 0
    /\ requested = <<>>
    /\ output_pdf = <<>>
    /\ error = NoError
    /\ failed_in = ""
    /\ markup = NoMarkup
    /\ copy = NoMarkup
    /\ replacement = 0
    /\ normalized = <<>>

\* An exception propagates out of main(): nothing else changes
Fail(err) ==
    /\ error' = err
    /\ failed_in' = pc
    /\ pc' = "failed"

Continue(next) ==
    /\ pc' = next
    /\ UNCHANGED <<error, failed_in>>

extraction == <<journal_article, art, refid, responses, lookup_count, resolved_doi,
               articles, k>>
output == <<pdf_pages, output_dir, fs, page_number, requested, output_pdf>>
options == <<dialect, page_offset, first_page_option, n_articles>>
normalizer == <<markup, copy, replacement, normalized>>

(***************************************************************************)
(* JournalIssue.__init__                                                   *)
(***************************************************************************)
\* read_xml: the root element is the dialect's or the run ends
ReadXml ==
    /\ pc = "read_xml"
    /\ \E root_is_expected \in BOOLEAN :
         IF root_is_expected
         THEN /\ Continue(IF n_articles = 0 THEN "articles_built" ELSE "article")
              /\ k' = IF n_articles = 0 THEN 0 ELSE 1
         ELSE /\ Fail(Error("ValueError", "Unexpected root element {}", <<>>))
              /\ k' = k
    /\ UNCHANGED <<options, normalizer, output, journal_article, art, refid, responses,
                   lookup_count, resolved_doi, articles>>

\* JournalArticle.__init__, up to self.language, on an element of `elements`
BeginArticleFrom(elements) ==
    /\ pc = "article"
    /\ \E element \in elements :
         LET language == normalize_language(dialect, element.language) IN
         /\ journal_article' = element
         /\ responses' = <<>>
         /\ refid' = 0
         /\ IF language.err # NoError
            THEN Fail(language.err) /\ art' = NoArticle
            ELSE Continue("titles") /\ art' = [NoArticle EXCEPT !.language = language.val]
    /\ UNCHANGED <<options, normalizer, output, lookup_count, resolved_doi, articles, k>>

BeginArticle == BeginArticleFrom(RunElements)

BeginRichArticle == BeginArticleFrom(ArticleElements)

LoadTitles ==
    /\ pc = "titles"
    /\ LET titles == _load_titles(dialect, journal_article, art.language) IN
       IF titles.err # NoError
       THEN Fail(titles.err) /\ art' = art
       ELSE Continue("authors") /\ art' = [art EXCEPT !.titles = titles.val]
    /\ UNCHANGED <<options, normalizer, output, journal_article, refid, responses,
                   lookup_count, resolved_doi, articles, k>>

LoadAuthors ==
    /\ pc = "authors"
    /\ LET authors == _load_authors(dialect, journal_article) IN
       IF authors.err # NoError
       THEN Fail(authors.err) /\ art' = art
       ELSE Continue("pages") /\ art' = [art EXCEPT !.authors = authors.val]
    /\ UNCHANGED <<options, normalizer, output, journal_article, refid, responses,
                   lookup_count, resolved_doi, articles, k>>

LoadPages ==
    /\ pc = "pages"
    /\ LET pages == _load_pages(journal_article) IN
       IF pages.err # NoError
       THEN Fail(pages.err) /\ art' = art
       ELSE Continue("doi") /\ art' = [art EXCEPT !.pages = pages.val]
    /\ UNCHANGED <<options, normalizer, output, journal_article, refid, responses,
                   lookup_count, resolved_doi, articles, k>>

\* _load_doi, _load_category and the first lines of _load_references
LoadDoi ==
    /\ pc = "doi"
    /\ art' = [art EXCEPT !.doi = _load_doi(dialect, journal_article),
                          !.category = _load_category,
                          !.references = <<>>]
    /\ refid' = 0
    /\ Continue("references")
    /\ UNCHANGED <<options, normalizer, output, journal_article, responses,
                   lookup_count, resolved_doi, articles, k>>

\* One turn of the loop of _load_references; `response` is what the lookup
\* service answers when the turn issues a lookup
LoadReferenceTurn(response) ==
    LET reference == journal_article.citations[refid + 1]
        loaded == load_reference(dialect, refid + 1, reference, response)
    IN  /\ responses' = Append(responses, response.status_code)
        /\ refid' = refid + 1
        /\ IF loaded.err # NoError
           THEN Fail(loaded.err) /\ art' = art
           ELSE /\ Continue("references")
                /\ art' = [art EXCEPT !.references = Append(@, loaded.val)]

\* A turn that calls resolve_doi
LoadReferenceLookup ==
    /\ pc = "references"
    /\ refid < Len(journal_article.citations)
    /\ IssuesLookup(dialect, journal_article.citations[refid + 1])
    /\ \E response \in Responses :
         /\ LoadReferenceTurn(response)
         /\ resolved_doi' = resolve_doi(response)
    /\ lookup_count' = lookup_count + 1
    /\ UNCHANGED <<options, normalizer, output, journal_article, articles, k>>

\* A turn that does not
LoadReferenceLocal ==
    /\ pc = "references"
    /\ refid < Len(journal_article.citations)
    /\ ~IssuesLookup(dialect, journal_article.citations[refid + 1])
    /\ LoadReferenceTurn(NoResponse)
    /\ UNCHANGED <<options, normalizer, output, journal_article, lookup_count,
                   resolved_doi, articles, k>>

\* The loop of _load_references is over
EndReferences ==
    /\ pc = "references"
    /\ refid = Len(journal_article.citations)
    /\ Continue(IF dialect = "bulletin" THEN "summaries" ELSE "built")
    /\ UNCHANGED <<options, normalizer, output, extraction>>

LoadSummaries ==
    /\ pc = "summaries"
    /\ LET loaded == _load_summaries(journal_article, art.language) IN
       IF loaded.err # NoError
       THEN Fail(loaded.err) /\ art' = art
       ELSE /\ Continue("keywords")
            /\ art' = [art EXCEPT !.summaries = loaded.val.summaries,
                                  !.main_summary_language = loaded.val.main_summary_language]
    /\ UNCHANGED <<options, normalizer, output, journal_article, refid, responses,
                   lookup_count, resolved_doi, articles, k>>

LoadKeywords ==
    /\ pc = "keywords"
    /\ LET keywords == _load_keywords(journal_article, art.language) IN
       IF keywords.err # NoError
       THEN Fail(keywords.err) /\ art' = art
       ELSE Continue("built") /\ art' = [art EXCEPT !.keywords = keywords.val]
    /\ UNCHANGED <<options, normalizer, output, journal_article, refid, responses,
                   lookup_count, resolved_doi, articles, k>>

\* ArticleBuilt where the list is complete after its first article
ArticleBuiltGoesOn ==
    /\ pc = "built"
    /\ articles' = Append(articles, art)
    /\ k' = k
    /\ Continue("articles_built")
    /\ UNCHANGED <<options, normalizer, output, journal_article, art, refid, responses,
                   lookup_count, resolved_doi>>

\* JournalArticle.__init__ returns: the article joins the list
ArticleBuilt ==
    /\ pc = "built"
    /\ articles' = Append(articles, art)
    /\ k' = IF k < n_articles THEN k + 1 ELSE k
    /\ Continue(IF k < n_articles THEN "article" ELSE "articles_built")
    /\ UNCHANGED <<options, normalizer, output, journal_article, art, refid, responses,
                   lookup_count, resolved_doi>>

\* The end of JournalIssue.__init__: the bulletin dialect asserts self.articles
EndInit ==
    /\ pc = "articles_built"
    /\ IF dialect = "bulletin" /\ articles = <<>>
       THEN Fail(Error("AssertionError", "self.articles", <<>>))
       ELSE Continue("write_xml")
    /\ UNCHANGED <<options, normalizer, output, extraction>>

(***************************************************************************)
(* JournalIssue.write_xml                                                  *)
(***************************************************************************)
\* JournalIssue.first_page_number: a property of the bulletin dialect, the
\* command line option of the crossref dialect
first_page_number ==
    IF dialect = "bulletin" THEN articles[1].pages[1] ELSE first_page_option

\* The document _write_meta_xml builds
MetaDocument(article) ==
    [title |-> article.titles,
     author |-> [i \in DOMAIN article.authors |->
                   <<article.authors[i][1],
                     article.authors[i][2] \o <<",", SP>> \o article.authors[i][3]>>],
     language |-> article.language,
     keyword |-> article.keywords,
     summary |-> article.summaries,
     lang_summary |-> article.main_summary_language,
     doi |-> article.doi,
     category |-> article.category,
     range_pages |-> <<article.pages[1], "-", article.pages[2]>>]

\* The document _write_references_xml builds
ReferencesDocument(article) == article.references

\* PhysicalIndex without "page_number -= first_page_number"
PhysicalIndexUnbased(logical_page, offset, first_logical_page) ==
    logical_page + offset

\* The 0-based index write_pdf asks the reader for
PhysicalIndex(logical_page, offset, first_logical_page) ==
    logical_page + offset - first_logical_page

\* PdfFileReader.getPage(i): the pages are a Python list, which a negative
\* index reads from its end; the value is the 0-based page, as an option
getPage(i) ==
    IF 0 <= i /\ i < pdf_pages THEN <<i>>
    ELSE IF -pdf_pages <= i /\ i < 0 THEN <<pdf_pages + i>>
    ELSE <<>>

\* The first lines of write_xml: the output directory, read_pdf
WriteXmlBegin ==
    /\ pc = "write_xml"
    /\ output_dir' = TRUE
    /\ pdf_pages' \in 1..MaxPdfPages
    /\ k' = IF articles = <<>> THEN 0 ELSE 1
    /\ Continue(IF articles = <<>> THEN "written" ELSE "write_meta")
    /\ UNCHANGED <<options, normalizer, journal_article, art, refid, responses,
                   lookup_count, resolved_doi, articles, fs, page_number, requested,
                   output_pdf>>

\* article.write_xml: _write_meta_xml
WriteMetaXml ==
    /\ pc = "write_meta"
    /\ fs' = [fs EXCEPT ![ArticleDirectory(k)] =
                 [@ EXCEPT !.exists = TRUE, !.meta = <<MetaDocument(articles[k])>>]]
    /\ Continue(IF articles[k].references # <<>> THEN "write_references" ELSE "write_pdf")
    /\ UNCHANGED <<options, normalizer, extraction, pdf_pages, output_dir, page_number,
                   requested, output_pdf>>

\* article.write_xml: self._write_references_xml(output_dir).  The crossref
\* dialect defines the method as __write_references_xml, a name the class
\* body mangles, so that the call finds no attribute.
WriteReferencesXml ==
    /\ pc = "write_references"
    /\ IF dialect = "crossref"
       THEN /\ Fail(Error("AttributeError",
                          "'JournalArticle' object has no attribute '_write_references_xml'",
                          <<>>))
            /\ fs' = fs
       ELSE IF \E i \in DOMAIN articles[k].references :
                   articles[k].references[i].title.t \notin {"str", "null"}
       THEN /\ Fail(TypeError("Argument must be bytes or unicode"))
            /\ fs' = fs
       ELSE /\ Continue("write_pdf")
            /\ fs' = [fs EXCEPT ![ArticleDirectory(k)] =
                        [@ EXCEPT !.exists = TRUE,
                                  !.references = <<ReferencesDocument(articles[k])>>]]
    /\ UNCHANGED <<options, normalizer, extraction, pdf_pages, output_dir, page_number,
                   requested, output_pdf>>

\* article.write_pdf, up to the loop
WritePdfBegin ==
    /\ pc = "write_pdf"
    /\ output_pdf' = <<>>
    /\ requested' = <<>>
    /\ page_number' = articles[k].pages[1]
    /\ Continue("get_page")
    /\ UNCHANGED <<options, normalizer, extraction, pdf_pages, output_dir, fs>>

\* One turn of the loop of write_pdf
GetPage ==
    /\ pc = "get_page"
    /\ page_number <= articles[k].pages[2]
    /\ LET index == PhysicalIndex(page_number, page_offset, first_page_number)
           page == getPage(index)
       IN  /\ requested' = Append(requested, index)
           /\ IF page = <<>>
              THEN /\ Fail(Error("IndexError", "list index out of range", <<>>))
                   /\ UNCHANGED <<output_pdf, page_number>>
              ELSE /\ Continue("get_page")
                   /\ output_pdf' = Append(output_pdf, page[1])
                   /\ page_number' = page_number + 1
    /\ UNCHANGED <<options, normalizer, extraction, pdf_pages, output_dir, fs>>

\* The end of write_pdf: source.pdf; then the next article
WritePdfFile ==
    /\ pc = "get_page"
    /\ page_number > articles[k].pages[2]
    /\ fs' = [fs EXCEPT ![ArticleDirectory(k)] =
                 [@ EXCEPT !.exists = TRUE, !.pdf = <<output_pdf>>]]
    /\ k' = IF k < Len(articles) THEN k + 1 ELSE k
    /\ Continue(IF k < Len(articles) THEN "write_meta" ELSE "written")
    /\ UNCHANGED <<options, normalizer, journal_article, art, refid, responses,
                   lookup_count, resolved_doi, articles, pdf_pages, output_dir,
                   page_number, requested, output_pdf>>

\* JournalArticle.__repr__ needs a first author
ReprFails == \E i \in DOMAIN articles : articles[i].authors = <<>>

\* write_xml returned; the crossref dialect prints the issue
Finish ==
    /\ pc = "written"
    /\ IF dialect = "crossref" /\ ReprFails
       THEN Fail(Error("ValueError", "values to unpack (expected at least 1)", <<>>))
       ELSE Continue("done")
    /\ UNCHANGED <<options, normalizer, extraction, output>>

\* Every action but the one that starts an article
Steps ==
    \/ ReadXml
    \/ LoadTitles
    \/ LoadAuthors
    \/ LoadPages
    \/ LoadDoi
    \/ LoadReferenceLookup
    \/ LoadReferenceLocal
    \/ EndReferences
    \/ LoadSummaries
    \/ LoadKeywords
    \/ ArticleBuilt
    \/ EndInit
    \/ WriteXmlBegin
    \/ WriteMetaXml
    \/ WriteReferencesXml
    \/ WritePdfBegin
    \/ GetPage
    \/ WritePdfFile
    \/ Finish

Next == BeginArticle \/ Steps

Spec == Init /\ [][Next]_vars

\* The runs on an issue of one article, sliced with the options' defaults of
\* the crossref dialect
InitArticle ==
    /\ Init
    /\ n_articles = 1
    /\ page_offset = 0
    /\ first_page_option \in {0, 1}

NextArticle == BeginRichArticle \/ Steps

SpecArticle == InitArticle /\ [][NextArticle]_vars

(***************************************************************************)
(* get_text, on its own: a caller passes an element of its tree.           *)
(***************************************************************************)
\* element = etree.fromstring(etree.tostring(element))
GetTextCopy ==
    /\ pc = "get_text"
    /\ LET parsed == CopyOf(markup) IN
       IF parsed.err # NoError
       THEN Fail(parsed.err) /\ UNCHANGED <<copy, replacement>>
       ELSE Continue("replace") /\ copy' = parsed.val /\ replacement' = 1
    /\ UNCHANGED <<options, extraction, output, markup, normalized>>

\* One turn of the loop over ELEMENT_REPLACEMENTS
GetTextReplace ==
    /\ pc = "replace"
    /\ replacement <= Len(ELEMENT_REPLACEMENTS)
    /\ copy' = replace_elements_with_text(copy, ELEMENT_REPLACEMENTS[replacement][1],
                                          ELEMENT_REPLACEMENTS[replacement][2])
    /\ replacement' = replacement + 1
    /\ Continue("replace")
    /\ UNCHANGED <<options, extraction, output, markup, normalized>>

\* The text nodes of the tree, stripped, joined, split and joined
GetTextJoin ==
    /\ pc = "replace"
    /\ replacement > Len(ELEMENT_REPLACEMENTS)
    /\ normalized' = <<get_text(TextNodes(copy))>>
    /\ Continue("returned")
    /\ UNCHANGED <<options, extraction, output, markup, copy, replacement>>

InitText ==
    /\ dialect = "bulletin"
    /\ page_offset = 0
    /\ first_page_option = 0
    /\ n_articles = 0
    /\ pc = "get_text"
    /\ k = 0
    /\ journal_article = NoElement
    /\ art = NoArticle
    /\ refid = 0
    /\ responses = <<>>
    /\ lookup_count = 0
    /\ resolved_doi = PyNone
    /\ articles = <<>>
    /\ pdf_pages = 0
    /\ output_dir = FALSE
    /\ fs = [d \in Directories |-> NoFiles]
    /\ page_number = 0
    /\ requested = <<>>
    /\ output_pdf = <<>>
    /\ error = NoError
    /\ failed_in = ""
    /\ markup \in Markups
    /\ copy = NoMarkup
    /\ replacement = 0
    /\ normalized = <<>>

NextText == GetTextCopy \/ GetTextReplace \/ GetTextJoin

SpecText == InitText /\ [][NextText]_vars

(***************************************************************************)
(* Properties.                                                             *)
(***************************************************************************)
ExtractionStages ==
    {"article", "titles", "authors", "pages", "doi", "references", "summaries", "keywords"}

WriteStages == {"write_meta", "write_references", "write_pdf", "get_page"}

\* The run is writing article k, or failed doing so
Writing == pc \in WriteStages \/ (pc = "failed" /\ failed_in \in WriteStages)

\* The indices the contract of the slicer gives for article j, and the
\* number of its pages
LogicalPages(j) == articles[j].pages[2] - articles[j].pages[1] + 1

ContractIndex(j, i) ==
    (articles[j].pages[1] + (i - 1)) + page_offset
        - (IF dialect = "bulletin" THEN articles[1].pages[1] ELSE first_page_option)

\* The page of the source PDF at a 0-based index the reader accepts
PageAt(index) == IF index < 0 THEN pdf_pages + index ELSE index

\* C1: write_pdf asks the reader for the indices p + page_offset -
\* first_page_number, p = first, ..., last, in ascending order, and adds the
\* returned pages in that order: at every moment of the loop the requests
\* made and the pages added are the first ones of that sequence, and a
\* source.pdf that was written holds exactly last - first + 1 pages, the
\* i-th being the page at the i-th index.
C1_SliceIndices ==
    /\ Writing /\ (pc = "get_page" \/ failed_in = "get_page") =>
         /\ Len(requested) <= LogicalPages(k)
         /\ \A i \in DOMAIN requested : requested[i] = ContractIndex(k, i)
         /\ \A i \in DOMAIN output_pdf : output_pdf[i] = PageAt(requested[i])
         /\ pc = "get_page" => Len(output_pdf) = Len(requested)
         /\ pc = "get_page" => page_number = articles[k].pages[1] + Len(requested)
    /\ \A j \in DOMAIN articles :
         fs[<<"#", j>>].pdf # <<>> =>
            LET pdf == fs[<<"#", j>>].pdf[1] IN
            /\ Len(pdf) = LogicalPages(j)
            /\ \A i \in DOMAIN pdf : pdf[i] = PageAt(ContractIndex(j, i))

\* A source.pdf of two pages was written for the second article of an issue
C1_Witness ==
    /\ pc = "done"
    /\ Len(articles) = 2
    /\ fs[<<"#", 2>>].pdf # <<>>
    /\ Len(fs[<<"#", 2>>].pdf[1]) = 2
    /\ page_offset = 1

\* C2: invert_language returns 'eng' for 'cze' and 'slo' and raises for
\* 'eng': when _load_titles of the bulletin dialect has returned for an
\* article with an additional-content title, the article is Czech or Slovak
\* and the additional title is filed under 'eng'.
C2_InvertLanguageRaises ==
    /\ dialect = "bulletin"
    /\ pc = "authors"
    /\ \E i \in DOMAIN journal_article.additional : journal_article.additional[i].tag = "title"
    => /\ art.language \in {"cze", "slo"}
       /\ \E i \in DOMAIN art.titles : art.titles[i][1] = "eng"
       /\ \A i \in DOMAIN art.titles : art.titles[i][1] \in {"cze", "slo", "eng"}

\* The fatal errors of the model that C3 attributes to an article
ArticleFatal ==
    /\ pc = "failed"
    /\ \/ failed_in = "article"
       \/ failed_in = "pages"
       \/ failed_in = "references" /\ error.type = "ValueError" /\ error.args = <<refid>>
       \/ failed_in = "get_page"

NoFileIn(directory) ==
    /\ fs[directory].meta = <<>>
    /\ fs[directory].references = <<>>
    /\ fs[directory].pdf = <<>>

\* C3: when the run aborts with a fatal error attributable to article k
\* (language, page range, malformed citation, page index out of bounds), no
\* file has been written into the directory of article k.
C3_NoOutputOnAbort == ArticleFatal => NoFileIn(<<"#", k>>)

\* What the directory of article j holds once the article is written
WrittenFiles(j) ==
    [exists |-> TRUE,
     meta |-> <<MetaDocument(articles[j])>>,
     references |-> IF articles[j].references = <<>> THEN <<>>
                    ELSE <<articles[j].references>>,
     pdf |-> <<[i \in 1..LogicalPages(j) |-> PageAt(ContractIndex(j, i))]>>]

\* C4: while article k is written, and when the run fails writing it, the
\* directories of the articles 1..k-1 hold the files written for them,
\* unchanged; the directories of the later articles hold nothing.
C4_EarlierOutputKept ==
    Writing =>
        /\ \A j \in 1..(k - 1) : fs[<<"#", j>>] = WrittenFiles(j)
        /\ \A j \in (k + 1)..MaxArticles : fs[<<"#", j>>] = NoFiles

\* The run failed while slicing the second article, whose pages differ
\* from the first one's
C4_Witness ==
    /\ pc = "failed"
    /\ failed_in = "get_page"
    /\ k = 2
    /\ articles[1].pages # articles[2].pages
    /\ fs[<<"#", 2>>].meta # <<>>

\* Whether every page of article j is inside the source PDF
PagesInside(j) ==
    \A i \in 1..LogicalPages(j) : 0 <= ContractIndex(j, i) /\ ContractIndex(j, i) < pdf_pages

\* C5: an article whose pages are all inside the source PDF is completed:
\* the run does not fail while writing it, and once written its directory
\* holds meta.xml and source.pdf, and references.xml exactly when the
\* article has references.
C5_FilesOfArticle ==
    /\ pc = "failed" /\ failed_in \in WriteStages => ~PagesInside(k)
    /\ \A j \in DOMAIN articles :
         (pc \in {"written", "done"} \/ (Writing /\ j < k)) /\ pdf_pages > 0 /\ PagesInside(j) =>
            /\ fs[<<"#", j>>].meta # <<>>
            /\ fs[<<"#", j>>].pdf # <<>>
            /\ fs[<<"#", j>>].references # <<>> <=> articles[j].references # <<>>

\* _load_references has returned for the article being built
ReferencesLoaded == pc \in {"summaries", "keywords", "built"}

\* Whether a reference record is the one its dialect makes of a citation:
\* the DOI, the article title or the free text of the citation is in it
Corresponds(record, citation) ==
    IF dialect = "crossref"
    THEN IF citation.doi # <<>>
         THEN record.suffix = <<". DOI: ">> \o get_text(<<citation.doi[1]>>)
         ELSE record.title = PyStr(get_text(<<citation.article_title[1]>>))
    ELSE IF citation.doi # <<>>
         THEN <<"URL", <<"https://dx.doi.org/">> \o get_text(<<citation.doi[1]>>)>>
                  \in record.optionals
         ELSE IF citation.article_title # <<>>
              THEN /\ record.title = PyStr(get_text(<<citation.article_title[1]>>))
                   /\ record.suffix = PlaceholderSuffix
              ELSE /\ record.suffix = get_text(<<citation.unstructured_citation[1]>>)
                   /\ record.title = PyStr(Placeholder)

\* C6: after _load_references has returned on an article with N citations
\* there are N reference records, the i-th made of the i-th citation, with
\* id i and prefix "[i]".
C6_ReferenceIds ==
    ReferencesLoaded =>
        /\ Len(art.references) = Len(journal_article.citations)
        /\ \A i \in DOMAIN art.references :
             /\ art.references[i].refid = i
             /\ art.references[i].prefix = <<"[", i, "]">>
             /\ Corresponds(art.references[i], journal_article.citations[i])

\* Two citations of different forms were resolved: an article title, then a DOI
C6_Witness ==
    /\ ReferencesLoaded
    /\ Len(art.references) = 2
    /\ journal_article.citations[1].doi = <<>>
    /\ journal_article.citations[2].doi # <<>>

\* The contributors an article's author list is to consist of
RoleAuthors(sequence) ==
    LET persons == journal_article.contributors
        RECURSIVE Pick(_)
        Pick(i) ==
            IF i > Len(persons) THEN <<>>
            ELSE (IF persons[i].sequence = sequence /\ persons[i].contributor_role = "author"
                  THEN <<persons[i]>> ELSE <<>>) \o Pick(i + 1)
    IN  Pick(1)

\* C7: after _load_authors the author list is the contributors of role
\* author, the "first" ones and then the "additional" ones, each group in
\* document order, with the orders 1..N.
C7_AuthorsByRole ==
    pc \in {"pages", "doi", "references", "summaries", "keywords", "built"} =>
        LET kept == RoleAuthors("first") \o RoleAuthors("additional") IN
        /\ Len(art.authors) = Len(kept)
        /\ \A i \in DOMAIN art.authors :
             /\ art.authors[i][1] = i
             /\ art.authors[i][2] = get_text(kept[i].surname[1])
             /\ art.authors[i][3] = get_text(kept[i].given_name[1])

StrictlyAscending(pairs) ==
    \A i, j \in DOMAIN pairs :
        i < j => \/ LanguageRank(pairs[i][1]) < LanguageRank(pairs[j][1])
                 \/ pairs[i][1] = pairs[j][1] /\ TextLess(pairs[i][2], pairs[j][2])

NoRepeat(pairs) == \A i, j \in DOMAIN pairs : i # j => pairs[i] # pairs[j]

\* C8: the titles and the summaries of an article hold no (language, text)
\* pair twice and ascend by language, then by text.
C8_TitlesAndSummaries ==
    /\ NoRepeat(art.titles) /\ StrictlyAscending(art.titles)
    /\ NoRepeat(art.summaries) /\ StrictlyAscending(art.summaries)
    /\ \A j \in DOMAIN articles :
         /\ NoRepeat(articles[j].titles) /\ StrictlyAscending(articles[j].titles)
         /\ NoRepeat(articles[j].summaries) /\ StrictlyAscending(articles[j].summaries)

\* An original-language title equal to the main title after normalisation
\* collapsed into it, beside another title
C8_Witness ==
    /\ dialect = "bulletin"
    /\ pc = "authors"
    /\ Len(journal_article.titles) = 2
    /\ journal_article.titles[2] = TitleChild("original_language_title", "cs", <<<<SP, "a", NL>>>>)
    /\ journal_article.additional # <<>>
    /\ Len(art.titles) = 2

\* The citation the loop of _load_references has just worked on has none
\* of the three forms
LastCitationFormless ==
    /\ pc = "references" \/ (pc = "failed" /\ failed_in = "references")
    /\ refid >= 1
    /\ journal_article.citations[refid].doi = <<>>
    /\ journal_article.citations[refid].article_title = <<>>
    /\ journal_article.citations[refid].unstructured_citation = <<>>

\* C9: a citation at position i with neither DOI, article title nor
\* unstructured text ends the run with an error that names i, and no
\* record is made of it.
C9_MalformedNamesIndex ==
    LastCitationFormless =>
        /\ pc = "failed"
        /\ error.args = <<refid>>
        /\ Len(art.references) = refid - 1

\* C10: in the bulletin dialect a lookup that answered with a non-success
\* status did not end the run, and its citation has a record with its id
\* and prefix, the placeholder title and suffix, no author and none of
\* publisher, year, number, volume, pages, ISSN.
C10_FailedLookupDegrades ==
    dialect = "bulletin" /\ pc \in ExtractionStages \cup {"built", "failed"} =>
        \A i \in DOMAIN responses :
            responses[i] \notin {0, 200} /\ (pc = "failed" => failed_in \in ExtractionStages) =>
                /\ i <= Len(art.references)
                /\ art.references[i].refid = i
                /\ art.references[i].prefix = <<"[", i, "]">>
                /\ art.references[i].title = PyStr(<<"TODO: Doplnit!">>)
                /\ art.references[i].suffix = <<". TODO: Doplnit!">>
                /\ art.references[i].author_names = <<>>
                /\ \A o \in art.references[i].optionals :
                     o[1] \notin {"publisher", "year", "number", "volume", "pages", "ISSN"}

\* A lookup failed and the next citation was resolved after it
C10_Witness ==
    /\ dialect = "bulletin"
    /\ pc = "summaries"
    /\ Len(responses) = 2
    /\ responses[1] = 404
    /\ Len(art.references) = 2

\* The step writes meta.xml of article k into the empty directory d
WritesMeta(d) ==
    /\ fs[d] = NoFiles
    /\ fs'[d] = [NoFiles EXCEPT !.exists = TRUE, !.meta = <<MetaDocument(articles[k])>>]

\* The step writes references.xml of article k after meta.xml, before source.pdf
WritesReferences(d) ==
    /\ fs[d].meta # <<>> /\ fs[d].references = <<>> /\ fs[d].pdf = <<>>
    /\ articles[k].references # <<>>
    /\ fs'[d] = [fs[d] EXCEPT !.references = <<articles[k].references>>]

\* The step writes source.pdf of article k last
WritesPdf(d) ==
    /\ fs[d].meta # <<>> /\ fs[d].pdf = <<>>
    /\ articles[k].references # <<>> => fs[d].references # <<>>
    /\ fs'[d] = [fs[d] EXCEPT !.pdf = <<output_pdf>>]

\* C11: the articles are collected in the order of their elements (the k-th
\* element built becomes articles[k]); every step that writes a file writes
\* it into the directory "#k" of the article k being written, when every
\* earlier directory holds all its files and every later one holds nothing,
\* and within the directory the order is meta.xml, then references.xml (if
\* the article has references), then source.pdf.
C11_WriteOrder ==
    [][/\ articles' # articles =>
            /\ Len(articles) = k - 1
            /\ articles' = Append(articles, art)
       /\ \A d \in Directories :
            fs'[d] # fs[d] =>
                /\ d = <<"#", k>>
                /\ \A j \in 1..(k - 1) : fs[<<"#", j>>] = WrittenFiles(j)
                /\ \A j \in (k + 1)..MaxArticles : fs[<<"#", j>>] = NoFiles
                /\ WritesMeta(d) \/ WritesReferences(d) \/ WritesPdf(d)]_vars

\* The second of two articles has been written, references and pages included
C11_Witness ==
    /\ pc \in {"written", "done"}
    /\ Len(articles) = 2
    /\ fs[<<"#", 1>>].pdf # <<>>
    /\ fs[<<"#", 2>>].references # <<>>
    /\ fs[<<"#", 2>>].pdf # <<>>
    /\ articles[1] # articles[2]

\* The value at the end of the full path, as an option: every segment must
\* exist in a container of the segment's kind (a key in a mapping, an index
\* in a list)
RECURSIVE FullPath(_, _)
FullPath(element, path) ==
    IF path = <<>> THEN <<element>>
    ELSE LET fragment == Head(path) IN
         IF element.t = "dict" /\ fragment.kind = "str" /\ HasKey(element, fragment.key)
         THEN FullPath(ItemAt(element, fragment.key), Tail(path))
         ELSE IF element.t = "list" /\ fragment.kind = "int"
                 /\ fragment.idx < Len(element.items)
         THEN FullPath(element.items[fragment.idx + 1], Tail(path))
         ELSE <<>>

\* The optional fields the full paths of the metadata give
FieldsOfFullPaths(metadata) ==
    { <<JsonOptionals[i][2], str(FullPath(metadata, JsonOptionals[i][1])[1])>> :
        i \in { j \in DOMAIN JsonOptionals :
                  /\ FullPath(metadata, JsonOptionals[j][1]) # <<>>
                  /\ FullPath(metadata, JsonOptionals[j][1])[1].t \notin {"dict", "list"} } }

\* The turn of the loop that just ended, or failed, issued a lookup
AfterLookupTurn ==
    /\ dialect = "bulletin"
    /\ pc = "references" \/ (pc = "failed" /\ failed_in = "references")
    /\ refid > 0
    /\ responses[refid] # 0

\* The first author of the metadata has both names
FirstAuthorNamed(metadata) ==
    /\ FullPath(metadata, <<Key("author"), Idx(0), Key("given")>>) # <<>>
    /\ FullPath(metadata, <<Key("author"), Idx(0), Key("family")>>) # <<>>

\* C12: the turn that extracts from resolved metadata does not raise, whatever
\* the metadata; its record has, of publisher, year, number, volume, pages,
\* ISSN, exactly the fields whose full path exists and ends at a scalar; and
\* it has no author when the first author entry lacks a name.
C12_TolerantExtraction ==
    AfterLookupTurn =>
        /\ pc # "failed"
        /\ {o \in art.references[refid].optionals : o[1] # "URL"}
             = FieldsOfFullPaths(resolved_doi)
        /\ ~FirstAuthorNamed(resolved_doi) => art.references[refid].author_names = <<>>

\* The positions of the abstracts among the children of <additional-content>
Abstracts == xpath(journal_article.additional, "abstract")

\* The summary text of the abstract at a position
SummaryText(position) ==
    Join(<<NL, NL>>, GetTexts(journal_article.additional[position].para))

\* The keywords of the abstract at a position, each with the language
KeywordsOf(position, language) ==
    WithLanguage(language,
                 SplitCommas(get_text(<<journal_article.additional[position].keywords[1]>>),
                             <<>>))

\* Whether `part` is a run of consecutive entries of `whole`
Within(part, whole) ==
    \E i \in 0..(Len(whole) - Len(part)) : SubSeq(whole, i + 1, i + Len(part)) = part

\* C13: in the bulletin dialect, once an article is built, the summary and
\* the keywords of its first abstract have the article's language, which is
\* then the main summary language, and those of its second abstract have
\* the inverse language, whatever precedes the first abstract.
C13_AbstractLanguages ==
    dialect = "bulletin" /\ pc = "built" /\ Abstracts # <<>> =>
        LET first == Abstracts[1]
            inverse == invert_language(art.language).val
        IN  /\ journal_article.additional[first].para # <<>> =>
                /\ <<art.language, SummaryText(first)>> \in Range(art.summaries)
                /\ art.main_summary_language = <<art.language>>
            /\ journal_article.additional[first].keywords # <<>> =>
                Within(KeywordsOf(first, art.language), art.keywords)
            /\ Len(Abstracts) >= 2 =>
                LET second == Abstracts[2] IN
                /\ journal_article.additional[second].para # <<>> =>
                     <<inverse, SummaryText(second)>> \in Range(art.summaries)
                /\ journal_article.additional[second].keywords # <<>> =>
                     Within(KeywordsOf(second, inverse), art.keywords)

\* The free text of a citation, as the unstructured branch makes it a suffix
FreeText(citation) == get_text(<<citation.unstructured_citation[1]>>)

\* The record of a citation with a DOI: its address, the placeholder suffix,
\* and neither the embedded title nor the embedded authors
IsDoiRecord(record, citation) ==
    /\ \E o \in record.optionals : o[1] = "URL"
    /\ record.suffix = PlaceholderSuffix
    /\ citation.article_title # <<>> =>
         record.title # PyStr(get_text(<<citation.article_title[1]>>))
    /\ citation.contributors # <<>> =>
         record.author_names # NamePairs(get_author_names(citation).val)

\* C14: in the bulletin dialect the record of every citation loaded is of
\* the first kind that matches, in the order DOI, article title, free text:
\* DOI-bearing when the citation has a DOI, whatever else it has; structured
\* when it has no DOI but an article title; and its suffix is the free text
\* only when the citation has neither a DOI nor an article title.
C14_FirstMatch ==
    dialect = "bulletin" /\ pc \in ExtractionStages \cup {"built"} =>
        \A i \in DOMAIN art.references :
            LET citation == journal_article.citations[i]
                record == art.references[i]
            IN  /\ citation.doi # <<>> => IsDoiRecord(record, citation)
                /\ citation.doi = <<>> /\ citation.article_title # <<>> =>
                     record = StructuredReference(i, citation).val
                /\ citation.doi = <<>> /\ citation.article_title = <<>> =>
                     /\ record.title = PyStr(Placeholder)
                     /\ record.suffix = FreeText(citation)
                     /\ record.optionals = {}
                /\ citation.unstructured_citation # <<>> /\ record.suffix = FreeText(citation) =>
                     citation.doi = <<>> /\ citation.article_title = <<>>

\* Two citations were loaded: one with a DOI, an article title and free
\* text, and one with an article title and free text
C14_Witness ==
    /\ dialect = "bulletin"
    /\ pc = "summaries"
    /\ Len(art.references) = 2
    /\ \A i \in 1..2 :
         /\ journal_article.citations[i].article_title # <<>>
         /\ journal_article.citations[i].unstructured_citation # <<>>
    /\ journal_article.citations[1].doi # <<>>
    /\ journal_article.citations[2].doi = <<>>

\* Whether the substitution table names the tag, and the text it gives
InTable(tag) == \E i \in DOMAIN ELEMENT_REPLACEMENTS : ELEMENT_REPLACEMENTS[i][1] = tag
ReplacementOf(tag) ==
    ELEMENT_REPLACEMENTS[CHOOSE i \in DOMAIN ELEMENT_REPLACEMENTS :
                           ELEMENT_REPLACEMENTS[i][1] = tag][2]

\* The text nodes below an element, depth-first, where an element of the
\* table stands for its replacement text followed by its tail, both joined
\* to the text node before it, and what is inside it is left out
RECURSIVE SubstitutedNodes(_)
RECURSIVE SubstitutedChildren(_, _)
SubstitutedChildren(nodes, children) ==
    IF children = <<>> THEN nodes
    ELSE LET child == Head(children) IN
         IF InTable(child.tag)
         THEN SubstitutedChildren(
                  [nodes EXCEPT ![Len(nodes)] = @ \o ReplacementOf(child.tag) \o child.tail],
                  Tail(children))
         ELSE SubstitutedChildren(nodes \o SubstitutedNodes(child) \o <<child.tail>>,
                                  Tail(children))

SubstitutedNodes(element) == SubstitutedChildren(<<element.text>>, element.children)

\* No whitespace at either end, and no whitespace but single spaces
Collapsed(t) ==
    /\ \A i \in DOMAIN t : t[i] # NL
    /\ \A i \in 1..(Len(t) - 1) : ~(t[i] = SP /\ t[i + 1] = SP)
    /\ t # <<>> => t[1] # SP /\ t[Len(t)] # SP

\* C15: get_text does not change the element it is given, does not raise,
\* and returns the text nodes below the element in document order, with
\* every element of the substitution table replaced at its position by its
\* replacement text and its tail, whitespace collapsed and trimmed.
C15_GetText ==
    [][/\ markup' = markup
       /\ pc' # "failed"
       /\ pc' = "returned" =>
            /\ normalized' = <<get_text(SubstitutedNodes(markup))>>
            /\ Collapsed(normalized'[1])]_vars

\* Nothing of the output exists: neither the directory nor a file
NoOutput == ~output_dir /\ \A d \in Directories : fs[d] = NoFiles

\* C16: in both dialects a lookup is issued only while nothing of the output
\* exists; the output directory and the files are made only when every
\* article element of the issue has been extracted; and a run that fails
\* in the extraction of an article ends with nothing of the output.
C16_ExtractionBeforeOutput ==
    [][/\ lookup_count' # lookup_count => NoOutput /\ NoOutput'
       /\ output_dir' # output_dir \/ fs' # fs =>
            /\ Len(articles) = n_articles
            /\ lookup_count' = lookup_count
       /\ pc' = "failed" /\ failed_in' \in ExtractionStages \cup {"read_xml", "articles_built"} =>
            NoOutput']_vars

\* The extraction of the last of two articles failed after a lookup had
\* been issued, and nothing was written for the first one
C16_Witness ==
    /\ pc = "failed"
    /\ failed_in \in ExtractionStages
    /\ n_articles = 2
    /\ k = 2
    /\ Len(articles) = 1
    /\ lookup_count > 0
    /\ NoOutput

=============================================================================
